---- MODULE Spec2Model ----
(***************************************************************************)
(* Model of include/util/graph_loader.hpp: the three loaders that rebuild  *)
(* the node array, the barrier / traffic-light lists, the edge list and    *)
(* the turn restriction list from the binary files of the extractor.       *)
(*                                                                         *)
(* A file is a sequence of fixed-size items <<kind, payload>> laid out as  *)
(*   .osrm          [fp][count n][n x node][count m][m x edge]             *)
(*   .restrictions  [fp][count][count x restriction]                       *)
(* and a truncated file is a prefix of such a sequence.  A std::istream    *)
(* is the item sequence, the number of items consumed and its failbit:     *)
(* a read that finds no item sets failbit, leaves its buffer untouched     *)
(* and makes every later read a no-op.  A buffer that was never written    *)
(* holds an indeterminate value (a nondeterministic choice).  The output   *)
(* containers are created empty by the caller right before the call.       *)
(***************************************************************************)
EXTENDS Integers, Sequences, FiniteSets

\* ------------------------------------------------------------- bounds
MaxNodes == 3
MaxEdges == 3
MaxRestrictions == 2

\* ------------------------------------------------------- value domains
FingerPrints == {"valid", "stale"}
LonValues == {10, 11}
LatValues == {20}
OsmIds == {7, 8}
NodeIds == {0, 1}
TRAVEL_MODE_INACCESSIBLE == 0

\* extractor::ExternalMemoryNode, the on-disk node record
ExternalMemoryNode ==
    [lon : LonValues, lat : LatValues, node_id : OsmIds,
     barrier : BOOLEAN, traffic_lights : BOOLEAN]

\* mutant of QueryNode: longitude and latitude change places
QueryNodeSwapped(lon, lat, node_id) ==
    [lon |-> lat, lat |-> lon, node_id |-> node_id]

\* extractor::QueryNode as node_array.emplace_back(lon, lat, node_id) builds it
QueryNode(lon, lat, node_id) == [lon |-> lon, lat |-> lat, node_id |-> node_id]

\* FingerPrint::GetValid and FingerPrint::TestContractor
GetValid == "valid"
TestContractor(fingerprint_loaded, fingerprint_valid) ==
    fingerprint_loaded = fingerprint_valid

\* ------------------------------------------------------------ streams
Item(kind, payload) == <<kind, payload>>
Payload(item) == item[2]
Prefixes(s) == {SubSeq(s, 1, k) : k \in 0..Len(s)}
SeqsOfLen(S, k) == [1..k -> S]
Min(a, b) == IF a < b THEN a ELSE b

\* std::istream::read of one item: TRUE when the item is there to be read
CanRead(stream, p, fail) == ~fail /\ p < Len(stream)

VARIABLES
    validation,                 \* TRUE: built without NDEBUG
    input_stream, pos, failbit, \* the .osrm stream
    warned,                     \* a logWARNING line was written
    node_array, barrier_node_list, traffic_light_node_list, n,
    edge_list, m,
    pc,                         \* caller of the .osrm loaders
    file, file_pos,             \* the .restrictions file and its reader
    restriction_list, number_of_usable_restrictions,
    rpc                         \* caller of the restriction loader

vars == <<validation, input_stream, pos, failbit, warned,
          node_array, barrier_node_list, traffic_light_node_list, n,
          edge_list, m, pc,
          file, file_pos, restriction_list, number_of_usable_restrictions, rpc>>

osrm_vars == <<input_stream, pos, failbit, warned,
               node_array, barrier_node_list, traffic_light_node_list, n,
               edge_list, m, pc>>
restriction_vars ==
    <<file, file_pos, restriction_list, number_of_usable_restrictions, rpc>>

\* ------------------------------------------------- loadNodesFromFile
\* mutant of NodeStep: the lists receive the record's external id, not i
NodeStepExternalId(i, st) ==
    LET ok  == CanRead(input_stream, st.pos, st.failbit)
        cur == IF ok THEN Payload(input_stream[st.pos + 1]) ELSE st.current_node
    IN  [pos          |-> IF ok THEN st.pos + 1 ELSE st.pos,
         failbit      |-> ~ok,
         current_node |-> cur,
         node_array   |-> Append(st.node_array,
                                 [lon |-> cur.lon, lat |-> cur.lat,
                                  node_id |-> cur.node_id]),
         barrier_node_list |->
             IF cur.barrier THEN Append(st.barrier_node_list, cur.node_id)
                            ELSE st.barrier_node_list,
         traffic_light_node_list |->
             IF cur.traffic_lights
                 THEN Append(st.traffic_light_node_list, cur.node_id)
                 ELSE st.traffic_light_node_list]

\* One iteration of the loop of lines 78-91 on the loop state st.
NodeStep(i, st) ==
    LET ok  == CanRead(input_stream, st.pos, st.failbit)
        cur == IF ok THEN Payload(input_stream[st.pos + 1]) ELSE st.current_node
    IN  [pos          |-> IF ok THEN st.pos + 1 ELSE st.pos,
         failbit      |-> ~ok,
         current_node |-> cur,
         node_array   |-> Append(st.node_array,
                                 QueryNode(cur.lon, cur.lat, cur.node_id)),
         barrier_node_list |->
             IF cur.barrier THEN Append(st.barrier_node_list, i)
                            ELSE st.barrier_node_list,
         traffic_light_node_list |->
             IF cur.traffic_lights THEN Append(st.traffic_light_node_list, i)
                                   ELSE st.traffic_light_node_list]

RECURSIVE NodeLoop(_, _, _)

\* mutant of NodeLoop: the scan stops one record early
RECURSIVE NodeLoopShort(_, _, _)
NodeLoopShort(i, count, st) ==
    IF i + 1 < count THEN NodeLoopShort(i + 1, count, NodeStep(i, st)) ELSE st

\* for (NodeID i = 0; i < n; ++i), lines 78-91
NodeLoop(i, count, st) ==
    IF i < count THEN NodeLoop(i + 1, count, NodeStep(i, st)) ELSE st

\* the loop state on entry: nothing read into current_node yet, and the
\* three containers as the caller created them
LoopEntry(p, fail, current_node) ==
    [pos |-> p, failbit |-> fail, current_node |-> current_node,
     node_array |-> <<>>, barrier_node_list |-> <<>>,
     traffic_light_node_list |-> <<>>]

\* mutant of NodesOutcome: a fingerprint mismatch ends the load with nothing
NodesOutcomeFailClosed(fingerprint_loaded, count, st) ==
    LET match == TestContractor(fingerprint_loaded, GetValid)
    IN  /\ warned' = ~match
        /\ pos' = IF match THEN st.pos ELSE 1
        /\ failbit' = IF match THEN st.failbit ELSE FALSE
        /\ node_array' = IF match THEN st.node_array ELSE <<>>
        /\ barrier_node_list' = IF match THEN st.barrier_node_list ELSE <<>>
        /\ traffic_light_node_list' =
               IF match THEN st.traffic_light_node_list ELSE <<>>
        /\ n' = IF match THEN count ELSE 0
        /\ pc' = "nodes_loaded"

\* what the call leaves behind: the warning of lines 65-69, the stream, the
\* three containers after the scan st, and the returned n
NodesOutcome(fingerprint_loaded, count, st) ==
    /\ warned' = ~TestContractor(fingerprint_loaded, GetValid)
    /\ pos' = st.pos
    /\ failbit' = st.failbit
    /\ node_array' = st.node_array
    /\ barrier_node_list' = st.barrier_node_list
    /\ traffic_light_node_list' = st.traffic_light_node_list
    /\ n' = count
    /\ pc' = "nodes_loaded"

\* The whole call.  A read that fails leaves its buffer as it was: the
\* fingerprint, n and current_node are then indeterminate.  current_node is
\* chosen only when the first record read cannot overwrite it.
loadNodesFromFile ==
    /\ pc = "start"
    /\ LET fp_ok == CanRead(input_stream, 0, FALSE)
           p1    == IF fp_ok THEN 1 ELSE 0
           n_ok  == CanRead(input_stream, p1, ~fp_ok)
           p2    == IF n_ok THEN p1 + 1 ELSE p1
       IN  \E fingerprint_loaded \in
                  IF fp_ok THEN {Payload(input_stream[1])} ELSE FingerPrints,
              count \in
                  IF n_ok THEN {Payload(input_stream[p1 + 1])} ELSE 0..MaxNodes,
              current_node \in
                  IF n_ok /\ CanRead(input_stream, p2, FALSE)
                      THEN {Payload(input_stream[p2 + 1])}
                      ELSE ExternalMemoryNode :
              NodesOutcome(fingerprint_loaded, count,
                           NodeLoop(0, count,
                                    LoopEntry(p2, ~n_ok, current_node)))
    /\ UNCHANGED <<validation, input_stream, edge_list, m>>
    /\ UNCHANGED restriction_vars

\* ------------------------------------------------- loadEdgesFromFile
\* extractor::NodeBasedEdge, the fields the loader looks at.  EdgeAttributes
\* are the well-formed attribute triple and the three single defects.
EdgeAttributes ==
    {<<1, TRUE, 1>>, <<0, TRUE, 1>>, <<1, FALSE, 1>>,
     <<1, TRUE, TRAVEL_MODE_INACCESSIBLE>>}
NodeBasedEdge ==
    {[source |-> s, target |-> t, weight |-> a[1], forward |-> a[2],
      travel_mode |-> a[3]] : s \in NodeIds, t \in NodeIds, a \in EdgeAttributes}

\* mutant of EdgeLess: the comparison is turned round
EdgeGreater(lhs, rhs) ==
    \/ lhs.source > rhs.source
    \/ lhs.source = rhs.source /\ lhs.target > rhs.target

\* the comparator handed to tbb::parallel_sort
EdgeLess(lhs, rhs) ==
    \/ lhs.source < rhs.source
    \/ lhs.source = rhs.source /\ lhs.target < rhs.target

Permutations(k) ==
    {p \in [1..k -> 1..k] : \A i, j \in 1..k : i # j => p[i] # p[j]}

\* tbb::parallel_sort is not stable: every arrangement of the list that the
\* comparator accepts as sorted is a possible result.
SortedArrangements(list) ==
    {q \in {[i \in 1..Len(list) |-> list[p[i]]] : p \in Permutations(Len(list))} :
        \A i, j \in 1..Len(list) : i < j => ~EdgeLess(q[j], q[i])}

\* the assertions of one iteration of the validation loop, lines 126-135
EdgeAssertionsHold(edge, prev_edge) ==
    /\ edge.weight > 0
    /\ edge.forward
    /\ edge.travel_mode # TRAVEL_MODE_INACCESSIBLE
    /\ edge.source # edge.target
    /\ (edge.source # prev_edge.source \/ edge.target # prev_edge.target)

\* the loop of lines 124-136: for (auto i = 1u; i < edge_list.size(); ++i)
ValidationPasses(list) ==
    \A i \in 2..Len(list) : EdgeAssertionsHold(list[i], list[i - 1])

\* mutant of BulkRead: the container is sized one slot short
BulkReadShort(stream, p, fail, count, slot) ==
    LET k == IF fail THEN 0 ELSE Min(count, Len(stream) - p)
    IN  [list    |-> [i \in 1..(IF count > 0 THEN count - 1 ELSE 0) |->
                         IF i <= k THEN Payload(stream[p + i]) ELSE slot],
         pos     |-> p + k,
         failbit |-> fail \/ k < count]

\* edge_list.resize(m) on the empty list, then the bulk read of line 111:
\* the k items that are there land in the first k slots, the other slots
\* keep the value-initialised element `slot`.
BulkRead(stream, p, fail, count, slot) ==
    LET k == IF fail THEN 0 ELSE Min(count, Len(stream) - p)
    IN  [list    |-> [i \in 1..count |->
                         IF i <= k THEN Payload(stream[p + i]) ELSE slot],
         pos     |-> p + k,
         failbit |-> fail \/ k < count]

\* mutant of ValidationOrder: the list is scanned unsorted
ValidationOrderUnsorted(list) == {list}

\* what the debug build leaves in the caller's container (lines 117-123)
ValidationOrder(list) == SortedArrangements(list)

\* The whole call.  m is indeterminate when its read fails; slot is what
\* resize puts into the slots the bulk read does not reach.  BOOST_ASSERT
\* (line 113) and the block of lines 115-137 exist without NDEBUG only.
loadEdgesFromFile ==
    /\ pc = "nodes_loaded"
    /\ LET m_ok == CanRead(input_stream, pos, failbit)
           p1   == IF m_ok THEN pos + 1 ELSE pos
       IN  \E count \in
                  IF m_ok THEN {Payload(input_stream[pos + 1])} ELSE 0..MaxEdges :
           \E slot \in
                  IF m_ok /\ count <= Len(input_stream) - p1
                      THEN {CHOOSE e \in NodeBasedEdge : TRUE}
                      ELSE NodeBasedEdge :
              LET rd == BulkRead(input_stream, p1, ~m_ok, count, slot)
              IN  /\ pos' = rd.pos
                  /\ failbit' = rd.failbit
                  /\ m' = count
                  /\ IF ~validation
                         THEN /\ edge_list' = rd.list
                              /\ pc' = "edges_loaded"
                         ELSE IF ~(Len(rd.list) > 0)
                             THEN /\ edge_list' = rd.list
                                  /\ pc' = "aborted"
                             ELSE \E sorted \in ValidationOrder(rd.list) :
                                      /\ edge_list' = sorted
                                      /\ pc' = IF ValidationPasses(sorted)
                                                   THEN "edges_loaded"
                                                   ELSE "aborted"
    /\ UNCHANGED <<validation, input_stream, warned, node_array,
                   barrier_node_list, traffic_light_node_list, n>>
    /\ UNCHANGED restriction_vars

\* ------------------------------------------ loadRestrictionsFromFile
\* extractor::TurnRestriction: three internal node ids
TurnRestriction == [from : NodeIds, via : NodeIds, to : NodeIds]

\* storage::io::FileReader(filename, VerifyFingerprint): the open reads the
\* fingerprint and fails when it is missing or does not match.
FileReaderOpen(f, flag) ==
    LET there == Len(f) >= 1
    IN  [ok  |-> /\ there
                 /\ (flag = "VerifyFingerprint"
                        => TestContractor(Payload(f[1]), GetValid)),
         pos |-> IF there THEN 1 ELSE 0]

\* mutant of OpenFlag: the file is opened without verification
OpenFlagUnverified == "IgnoreFingerprint"

\* the flag line 39 hands to the reader
OpenFlag == "VerifyFingerprint"

\* FileReader::ReadElementCount32 at position p
ReadElementCount32(f, p) ==
    [ok    |-> p < Len(f),
     value |-> IF p < Len(f) THEN Payload(f[p + 1]) ELSE 0,
     pos   |-> IF p < Len(f) THEN p + 1 ELSE p]

\* FileReader::ReadInto(buffer, count records) at position p: fails when
\* fewer records remain than requested; what was there has been copied.
ReadInto(f, p, buffer, count) ==
    LET k == Min(count, Len(f) - p)
    IN  [ok     |-> k = count,
         buffer |-> [i \in 1..Len(buffer) |->
                        IF i <= k THEN Payload(f[p + i]) ELSE buffer[i]],
         pos    |-> p + k]

\* restriction_list.resize(count) on the empty list
Resize(count, slot) == [i \in 1..count |-> slot]

loadRestrictionsFromFile ==
    /\ rpc = "start"
    /\ LET opened == FileReaderOpen(file, OpenFlag)
           header == ReadElementCount32(file, opened.pos)
       IN  IF ~opened.ok
               THEN /\ file_pos' = opened.pos
                    /\ rpc' = "failed"
                    /\ UNCHANGED <<restriction_list, number_of_usable_restrictions>>
           ELSE IF ~header.ok
               THEN /\ file_pos' = header.pos
                    /\ rpc' = "failed"
                    /\ UNCHANGED <<restriction_list, number_of_usable_restrictions>>
           ELSE \E slot \in
                      IF header.value <= Len(file) - header.pos
                          THEN {CHOOSE r \in TurnRestriction : TRUE}
                          ELSE TurnRestriction :
                  LET rd == IF header.value > 0
                                THEN ReadInto(file, header.pos,
                                              Resize(header.value, slot),
                                              header.value)
                                ELSE [ok |-> TRUE, buffer |-> <<>>,
                                      pos |-> header.pos]
                  IN  /\ file_pos' = rd.pos
                      /\ restriction_list' = rd.buffer
                      /\ number_of_usable_restrictions' =
                             IF rd.ok THEN header.value
                                      ELSE number_of_usable_restrictions
                      /\ rpc' = IF rd.ok THEN "returned" ELSE "failed"
    /\ UNCHANGED <<validation, file>>
    /\ UNCHANGED osrm_vars

\* ------------------------------------------------------ specifications
NodeItems == {Item("node", r) : r \in ExternalMemoryNode}

\* a header followed by the `held` items that made it into the file
Body(header, items, held) == header \o [i \in 1..held |-> items[i]]

\* the .osrm streams of the node scenarios: complete, cut inside the node
\* section, or cut inside the header
IsNodeStream(s) ==
    \/ s = <<>>
    \/ \E f \in FingerPrints : s = <<Item("fp", f)>>
    \/ \E f \in FingerPrints, c \in 0..MaxNodes :
           \E held \in 0..c :
               \E nodes \in SeqsOfLen(NodeItems, held) :
                   s = Body(<<Item("fp", f), Item("count", c)>>, nodes, held)

NoRestrictionCall ==
    /\ file = <<>>
    /\ file_pos = 0
    /\ restriction_list = <<>>
    /\ number_of_usable_restrictions = 0
    /\ rpc = "idle"

FreshOsmCall ==
    /\ pos = 0
    /\ failbit = FALSE
    /\ warned = FALSE
    /\ node_array = <<>>
    /\ barrier_node_list = <<>>
    /\ traffic_light_node_list = <<>>
    /\ n = 0
    /\ edge_list = <<>>
    /\ m = 0
    /\ pc = "start"

InitNodes ==
    /\ validation = FALSE
    /\ IsNodeStream(input_stream)
    /\ FreshOsmCall
    /\ NoRestrictionCall

NextNodes == loadNodesFromFile

SpecNodes == InitNodes /\ [][NextNodes]_vars

EdgeItems == {Item("edge", e) : e \in NodeBasedEdge}

\* the node sections the edge scenarios start from: no node, or one
\* barrier node
NodeSections ==
    {<<Item("fp", GetValid), Item("count", 0)>>,
     <<Item("fp", GetValid), Item("count", 1),
       Item("node", [lon |-> 10, lat |-> 20, node_id |-> 7,
                     barrier |-> TRUE, traffic_lights |-> FALSE])>>}

\* the .osrm streams of the edge scenarios: complete, cut inside the edge
\* section, or cut before the edge header
IsOsrmStream(s) ==
    \/ \E ns \in NodeSections : s \in Prefixes(ns)
    \/ \E ns \in NodeSections, c \in 0..MaxEdges :
           \E held \in 0..c :
               \E edges \in SeqsOfLen(EdgeItems, held) :
                   s = Body(ns \o <<Item("count", c)>>, edges, held)

InitEdges ==
    /\ validation \in BOOLEAN
    /\ IsOsrmStream(input_stream)
    /\ FreshOsmCall
    /\ NoRestrictionCall

NextEdges == loadNodesFromFile \/ loadEdgesFromFile

SpecEdges == InitEdges /\ [][NextEdges]_vars

RestrictionItems == {Item("restriction", r) : r \in TurnRestriction}

\* the .restrictions files: complete, cut inside the records, or cut inside
\* the header
IsRestrictionFile(f) ==
    \/ f = <<>>
    \/ \E fp \in FingerPrints : f = <<Item("fp", fp)>>
    \/ \E fp \in FingerPrints, c \in 0..MaxRestrictions :
           \E held \in 0..c :
               \E rs \in SeqsOfLen(RestrictionItems, held) :
                   f = Body(<<Item("fp", fp), Item("count", c)>>, rs, held)

NoOsrmCall ==
    /\ input_stream = <<>>
    /\ pos = 0
    /\ failbit = FALSE
    /\ warned = FALSE
    /\ node_array = <<>>
    /\ barrier_node_list = <<>>
    /\ traffic_light_node_list = <<>>
    /\ n = 0
    /\ edge_list = <<>>
    /\ m = 0
    /\ pc = "idle"

InitRestrictions ==
    /\ validation = FALSE
    /\ NoOsrmCall
    /\ IsRestrictionFile(file)
    /\ file_pos = 0
    /\ restriction_list = <<>>
    /\ number_of_usable_restrictions = 0
    /\ rpc = "start"

NextRestrictions == loadRestrictionsFromFile

SpecRestrictions == InitRestrictions /\ [][NextRestrictions]_vars

\* ------------------------------------------- the input, as laid out
\* [fp][count n][n x node][count m][m x edge]: where each part stands
HasNodeHeader(s) == Len(s) >= 2
DeclaredNodeCount(s) == Payload(s[2])
HasAllNodes(s) == HasNodeHeader(s) /\ Len(s) >= 2 + DeclaredNodeCount(s)
NodeRecordAt(s, i) == Payload(s[3 + i])
EdgeHeaderAt(s) == 3 + DeclaredNodeCount(s)
HasEdgeHeader(s) == HasAllNodes(s) /\ Len(s) >= EdgeHeaderAt(s)
DeclaredEdgeCount(s) == Payload(s[EdgeHeaderAt(s)])
HasAllEdges(s) ==
    HasEdgeHeader(s) /\ Len(s) >= EdgeHeaderAt(s) + DeclaredEdgeCount(s)
StreamEdges(s) ==
    [i \in 1..DeclaredEdgeCount(s) |-> Payload(s[EdgeHeaderAt(s) + i])]

Range(seq) == {seq[i] : i \in 1..Len(seq)}
StrictlyIncreasing(seq) == \A i \in 1..(Len(seq) - 1) : seq[i] < seq[i + 1]

NodesReturned == pc = "nodes_loaded"
EdgesCallEnded == pc \in {"edges_loaded", "aborted"}

\* ------------------------------------------------------------- claims

\* C1: for a stream whose header declares n records and holds them,
\* loadNodesFromFile returns n and the node container has exactly n elements.
C1_NodeCount ==
    (NodesReturned /\ HasAllNodes(input_stream)) =>
        /\ n = DeclaredNodeCount(input_stream)
        /\ Len(node_array) = DeclaredNodeCount(input_stream)

C1_Witness ==
    /\ NodesReturned
    /\ HasAllNodes(input_stream)
    /\ DeclaredNodeCount(input_stream) = 3
    /\ Len(node_array) = 3

\* C2: after loadNodesFromFile returns n, every id of the barrier list and of
\* the traffic-light list is below n, and both lists are strictly increasing.
C2_DerivedLists ==
    NodesReturned =>
        /\ \A id \in Range(barrier_node_list) : 0 <= id /\ id < n
        /\ \A id \in Range(traffic_light_node_list) : 0 <= id /\ id < n
        /\ StrictlyIncreasing(barrier_node_list)
        /\ StrictlyIncreasing(traffic_light_node_list)

C2_Witness ==
    /\ NodesReturned
    /\ Len(barrier_node_list) >= 2
    /\ Len(traffic_light_node_list) >= 2
    /\ barrier_node_list # traffic_light_node_list

\* C3: node round trip: position i of the node container carries the
\* (lon, lat, external id) of the i-th record, and i is in the barrier
\* (traffic-light) list exactly when the i-th record's barrier
\* (traffic-light) flag is set.
C3_RoundTrip ==
    (NodesReturned /\ HasAllNodes(input_stream)) =>
        \A i \in 0..(DeclaredNodeCount(input_stream) - 1) :
            LET record == NodeRecordAt(input_stream, i)
            IN  /\ i < Len(node_array)
                /\ node_array[i + 1].lon = record.lon
                /\ node_array[i + 1].lat = record.lat
                /\ node_array[i + 1].node_id = record.node_id
                /\ (i \in Range(barrier_node_list)) <=> record.barrier
                /\ (i \in Range(traffic_light_node_list)) <=> record.traffic_lights

C3_Witness ==
    /\ NodesReturned
    /\ HasAllNodes(input_stream)
    /\ DeclaredNodeCount(input_stream) = 3
    /\ NodeRecordAt(input_stream, 0).node_id # NodeRecordAt(input_stream, 1).node_id
    /\ NodeRecordAt(input_stream, 0).lon # NodeRecordAt(input_stream, 2).lon
    /\ barrier_node_list = <<1>>
    /\ traffic_light_node_list = <<0, 2>>

\* C9: a fingerprint mismatch on the .osrm stream is advisory: the loader
\* warns, and returns the count and fills the three containers as the records
\* of the stream dictate, exactly as with a matching fingerprint (where it
\* does not warn).
FingerprintMismatch(s) == Len(s) >= 1 /\ Payload(s[1]) # GetValid

LoadedAsRecorded(s) ==
    /\ n = DeclaredNodeCount(s)
    /\ node_array =
           [i \in 1..DeclaredNodeCount(s) |->
               [lon     |-> NodeRecordAt(s, i - 1).lon,
                lat     |-> NodeRecordAt(s, i - 1).lat,
                node_id |-> NodeRecordAt(s, i - 1).node_id]]
    /\ Range(barrier_node_list) =
           {i \in 0..(DeclaredNodeCount(s) - 1) : NodeRecordAt(s, i).barrier}
    /\ Range(traffic_light_node_list) =
           {i \in 0..(DeclaredNodeCount(s) - 1) : NodeRecordAt(s, i).traffic_lights}
    /\ Len(barrier_node_list) = Cardinality(Range(barrier_node_list))
    /\ Len(traffic_light_node_list) = Cardinality(Range(traffic_light_node_list))

C9_AdvisoryFingerprint ==
    (NodesReturned /\ HasAllNodes(input_stream)) =>
        /\ warned <=> FingerprintMismatch(input_stream)
        /\ LoadedAsRecorded(input_stream)

C9_Witness ==
    /\ NodesReturned
    /\ HasAllNodes(input_stream)
    /\ FingerprintMismatch(input_stream)
    /\ warned
    /\ n = 2
    /\ Len(node_array) = 2
    /\ barrier_node_list = <<0, 1>>

\* C5: a load whose declared record count exceeds the records in the input
\* fails; it never returns normally with the declared count and a container
\* of that size holding records that were not read from the input.
NodesCutShort(s) == HasNodeHeader(s) /\ Len(s) < 2 + DeclaredNodeCount(s)

C5_ShortReadFails ==
    ~ /\ NodesReturned
      /\ NodesCutShort(input_stream)
      /\ n = DeclaredNodeCount(input_stream)
      /\ Len(node_array) = DeclaredNodeCount(input_stream)

\* what the well-formedness check is after
Defective(e) ==
    \/ e.source = e.target
    \/ e.weight <= 0
    \/ ~e.forward
    \/ e.travel_mode = TRAVEL_MODE_INACCESSIBLE
SamePair(e, f) == e.source = f.source /\ e.target = f.target
HasDuplicatePair(list) ==
    \E i, j \in 1..Len(list) : i # j /\ SamePair(list[i], list[j])
WellFormedEdges(list) ==
    /\ \A i \in 1..Len(list) : ~Defective(list[i])
    /\ ~HasDuplicatePair(list)
LoadedInStreamOrder ==
    /\ pc = "edges_loaded"
    /\ m = DeclaredEdgeCount(input_stream)
    /\ edge_list = StreamEdges(input_stream)

\* C4 as stated: called right after loadNodesFromFile, loadEdgesFromFile
\* returns the declared m and the edge container has exactly m elements, for
\* every declared m >= 0 of well-formed edges, in both build modes.
C4_EdgeCountAnyM ==
    (/\ EdgesCallEnded
     /\ HasAllEdges(input_stream)
     /\ WellFormedEdges(StreamEdges(input_stream))) =>
        /\ pc = "edges_loaded"
        /\ m = DeclaredEdgeCount(input_stream)
        /\ Len(edge_list) = DeclaredEdgeCount(input_stream)

\* C4 amended: the same for every declared m >= 1 in a validation build and
\* every m >= 0 in an optimized build; a validation build given m = 0 stops
\* at the assertion that the edge list is not empty.
C4_EdgeCount ==
    (/\ EdgesCallEnded
     /\ HasAllEdges(input_stream)
     /\ WellFormedEdges(StreamEdges(input_stream))) =>
        IF validation /\ DeclaredEdgeCount(input_stream) = 0
            THEN pc = "aborted"
            ELSE /\ pc = "edges_loaded"
                 /\ m = DeclaredEdgeCount(input_stream)
                 /\ Len(edge_list) = DeclaredEdgeCount(input_stream)

C4_Witness ==
    /\ pc = "edges_loaded"
    /\ validation
    /\ HasAllEdges(input_stream)
    /\ WellFormedEdges(StreamEdges(input_stream))
    /\ DeclaredEdgeCount(input_stream) = 2
    /\ Len(edge_list) = 2

\* C6: with validation enabled a list holding a self-loop, a non-positive
\* weight, a non-forward edge or an inaccessible travel mode ends in a fatal
\* assertion, whichever edge it is and whatever the length; with validation
\* disabled the same list loads with all its records.
C6_DefectIsFatal ==
    (/\ EdgesCallEnded
     /\ HasAllEdges(input_stream)
     /\ \E i \in 1..DeclaredEdgeCount(input_stream) :
            Defective(StreamEdges(input_stream)[i])) =>
        IF validation THEN pc = "aborted" ELSE LoadedInStreamOrder

\* C7: with validation enabled a list in which two edges share (source,
\* target) ends in a fatal assertion wherever the two stand; with validation
\* disabled both are loaded and the call succeeds.
C7_DuplicateIsFatal ==
    (/\ EdgesCallEnded
     /\ HasAllEdges(input_stream)
     /\ HasDuplicatePair(StreamEdges(input_stream))) =>
        IF validation THEN pc = "aborted" ELSE LoadedInStreamOrder

C7_Witness ==
    /\ pc = "aborted"
    /\ validation
    /\ HasAllEdges(input_stream)
    /\ DeclaredEdgeCount(input_stream) = 3
    /\ LET edges == StreamEdges(input_stream)
       IN  /\ SamePair(edges[1], edges[3])
           /\ ~SamePair(edges[1], edges[2])
           /\ \A i \in 1..3 : ~Defective(edges[i])

\* C10 as stated: the edge container handed back holds the m records in
\* stream order in both build modes.  Stated here for well-formed lists, on
\* which the assertions of the validation build have nothing to report.
C10_StreamOrderAnyBuild ==
    (/\ pc = "edges_loaded"
     /\ HasAllEdges(input_stream)
     /\ WellFormedEdges(StreamEdges(input_stream))) =>
        edge_list = StreamEdges(input_stream)

\* C10 amended: in an optimized build the container holds the m records in
\* stream order; in a validation build the sort runs on the caller's
\* container, which comes back holding the same records ordered by
\* (source, target).
IsArrangementOf(list, other) ==
    /\ Len(list) = Len(other)
    /\ \E p \in Permutations(Len(list)) :
           \A i \in 1..Len(list) : list[i] = other[p[i]]
AscendingBySourceTarget(list) ==
    \A i \in 1..(Len(list) - 1) :
        \/ list[i].source < list[i + 1].source
        \/ /\ list[i].source = list[i + 1].source
           /\ list[i].target < list[i + 1].target

C10_OrderByBuild ==
    (pc = "edges_loaded" /\ HasAllEdges(input_stream)) =>
        IF validation
            THEN /\ IsArrangementOf(edge_list, StreamEdges(input_stream))
                 /\ AscendingBySourceTarget(edge_list)
            ELSE edge_list = StreamEdges(input_stream)

C10_Witness ==
    /\ pc = "edges_loaded"
    /\ validation
    /\ HasAllEdges(input_stream)
    /\ DeclaredEdgeCount(input_stream) = 3
    /\ edge_list # StreamEdges(input_stream)

\* C8: loadRestrictionsFromFile on a file whose fingerprint does not match
\* fails on open: neither the count nor a record is read, and the caller's
\* restriction list is neither resized nor filled.
C8_FailClosed ==
    (rpc # "start" /\ FingerprintMismatch(file)) =>
        /\ rpc = "failed"
        /\ file_pos = 1
        /\ restriction_list = <<>>
        /\ number_of_usable_restrictions = 0

C8_Witness ==
    /\ rpc = "failed"
    /\ FingerprintMismatch(file)
    /\ Len(file) = 4
    /\ Payload(file[2]) = 2
    /\ file_pos = 1
    /\ restriction_list = <<>>

====
